---- MODULE Spec2Model ----
(***************************************************************************)
(* Forward pass of the multilayer Elman RNN of rnn_by_hand.ipynb:          *)
(* compute_new_hidden_state, MyRNN.__init__ and MyRNN.forward.             *)
(*                                                                         *)
(* A tensor is a record [shape, data]: its dimensions and its values in    *)
(* row-major order.  A float64 is an integer or NaN; + and * propagate     *)
(* NaN as IEEE arithmetic does.  Rounding and overflow are not modelled.  *)
(* An operation that can raise yields [err, val]: err is "" or the name    *)
(* of the exception.                                                       *)
(***************************************************************************)
EXTENDS Integers, Sequences, FiniteSets, TLC

\* ------------------------------------------------------------------ bounds
MaxSeq == 2
MaxLayers == 2
MaxBatch == 2
MaxFeat == 2
HiddenSize == 2

\* ------------------------------------------------------------ float values
\* torch.nan: the one value that is not a number, an integer no computation
\* of the model comes near (NumbersStaySmall).
NaN == -1000000

IsNaN(x) == x = NaN

FAdd(a, b) == IF IsNaN(a) \/ IsNaN(b) THEN NaN ELSE a + b

FMul(a, b) == IF IsNaN(a) \/ IsNaN(b) THEN NaN ELSE a * b

\* torch.relu, elementwise; relu(nan) = nan.
relu(x) == IF IsNaN(x) THEN NaN ELSE IF x > 0 THEN x ELSE 0

\* torch.tanh on the integer grid: tanh(x) rounded to the nearest integer,
\* which is the sign of x; tanh(nan) = nan.
tanh(x) == IF IsNaN(x) THEN NaN ELSE IF x > 0 THEN 1 ELSE IF x < 0 THEN -1 ELSE 0

\* ----------------------------------------------------------------- tensors
RECURSIVE Numel(_)
Numel(shape) == IF shape = <<>> THEN 1 ELSE Head(shape) * Numel(Tail(shape))

Tensor(shape, data) == [shape |-> shape, data |-> data]

\* A tensor of the given shape filled with one value (torch.zeros, and the
\* fill hidden_states[:] = torch.nan).
Full(shape, x) == Tensor(shape, [n \in 1..Numel(shape) |-> x])

Ok(t) == [err |-> "", val |-> t]

Raise(e) == [err |-> e, val |-> Tensor(<<>>, <<>>)]

\* t[i] for a Python index i: a negative index counts from the end; out of
\* range is an IndexError.
Select(t, i) ==
    IF t.shape = <<>> THEN Raise("IndexError")
    ELSE LET n == Head(t.shape)
             k == IF i < 0 THEN i + n ELSE i
             sz == Numel(Tail(t.shape))
         IN  IF k < 0 \/ k >= n THEN Raise("IndexError")
             ELSE Ok(Tensor(Tail(t.shape), SubSeq(t.data, k * sz + 1, (k + 1) * sz)))

\* t[:, j]: index j of the second dimension, for every index of the first.
SelectCol(t, j) ==
    IF Len(t.shape) < 2 THEN Raise("IndexError")
    ELSE LET n == t.shape[1]
             m == t.shape[2]
             k == IF j < 0 THEN j + m ELSE j
             rest == Tail(Tail(t.shape))
             sz == Numel(rest)
         IN  IF k < 0 \/ k >= m THEN Raise("IndexError")
             ELSE Ok(Tensor(<<n>> \o rest,
                            [p \in 1..(n * sz) |->
                                t.data[((p - 1) \div sz) * m * sz + k * sz
                                       + ((p - 1) % sz) + 1]]))

RECURSIVE SumOfProducts(_, _, _, _, _, _)
\* sum over k in 1..n of a[ia + k] * b[ib + (k - 1) * stride + 1]
SumOfProducts(a, ia, b, ib, stride, n) ==
    IF n = 0 THEN 0
    ELSE FAdd(SumOfProducts(a, ia, b, ib, stride, n - 1),
              FMul(a[ia + n], b[ib + (n - 1) * stride + 1]))

\* A shape of rank <= 2 as a matrix shape: missing leading dimensions are 1.
AsMatrixShape(shape) ==
    IF Len(shape) = 0 THEN <<1, 1>>
    ELSE IF Len(shape) = 1 THEN <<1, shape[1]>>
    ELSE shape

RECURSIVE DotFrom(_, _, _, _, _)
\* sum over k in 1..n of a[ia + k] * b[ib + k]
DotFrom(a, ia, b, ib, n) ==
    IF n = 0 THEN 0
    ELSE FAdd(DotFrom(a, ia, b, ib, n - 1), FMul(a[ia + n], b[ib + n]))

\* A slip in the product: a @ w, the transpose forgotten.
MatMul(a, w) ==
    IF Len(a.shape) # 2 \/ Len(w.shape) # 2 THEN Raise("RuntimeError")
    ELSE LET B == a.shape[1]
             K == a.shape[2]
             H == w.shape[2]
         IN  IF w.shape[1] # K THEN Raise("RuntimeError")
             ELSE Ok(Tensor(<<B, H>>,
                            [p \in 1..(B * H) |->
                                SumOfProducts(a.data, ((p - 1) \div H) * K,
                                              w.data, (p - 1) % H, H, K)]))

\* a @ w.T for matrices a [B, K] and w [H, K]: entry (i, j) is the dot
\* product of row i of a and row j of w.
MatMulT(a, w) ==
    IF Len(a.shape) # 2 \/ Len(w.shape) # 2 THEN Raise("RuntimeError")
    ELSE LET B == a.shape[1]
             K == a.shape[2]
             H == w.shape[1]
         IN  IF w.shape[2] # K THEN Raise("RuntimeError")
             ELSE Ok(Tensor(<<B, H>>,
                            [p \in 1..(B * H) |->
                                DotFrom(a.data, ((p - 1) \div H) * K,
                                        w.data, ((p - 1) % H) * K, K)]))

BroadcastDim(m, n) == IF m = n THEN m ELSE IF m = 1 THEN n ELSE IF n = 1 THEN m ELSE 0

\* The value at row i, column j (from 0) of a tensor broadcast to a matrix.
BroadcastAt(t, i, j) ==
    LET s == AsMatrixShape(t.shape)
        r == IF s[1] = 1 THEN 0 ELSE i
        c == IF s[2] = 1 THEN 0 ELSE j
    IN  t.data[r * s[2] + c + 1]

\* a + b with broadcasting, for operands of rank <= 2.
Add(a, b) ==
    LET sa == AsMatrixShape(a.shape)
        sb == AsMatrixShape(b.shape)
        R == BroadcastDim(sa[1], sb[1])
        C == BroadcastDim(sa[2], sb[2])
    IN  IF R = 0 \/ C = 0 THEN Raise("RuntimeError")
        ELSE Ok(Tensor(<<R, C>>,
                       [p \in 1..(R * C) |->
                           FAdd(BroadcastAt(a, (p - 1) \div C, (p - 1) % C),
                                BroadcastAt(b, (p - 1) \div C, (p - 1) % C))]))

Apply(name, x) == IF name = "relu" THEN relu(x) ELSE tanh(x)

Activate(name, t) == Tensor(t.shape, [p \in 1..Len(t.data) |-> Apply(name, t.data[p])])

\* ------------------------------------------------------------ the step function
\* compute_new_hidden_state: activation(prev @ W_hh.T + b_hh + inputs @ W_ih.T
\* + b_ih), evaluated left to right; the first exception ends the evaluation.
compute_new_hidden_state(previous_hidden_state, inputs, weight_hh, bias_hh, weight_ih, bias_ih, activation_func) ==
    LET hh == MatMulT(previous_hidden_state, weight_hh)
        hb == IF hh.err # "" THEN hh ELSE Add(hh.val, bias_hh)
        ih == IF hb.err # "" THEN hb ELSE MatMulT(inputs, weight_ih)
        s  == IF ih.err # "" THEN ih ELSE Add(hb.val, ih.val)
        sb == IF s.err # "" THEN s ELSE Add(s.val, bias_ih)
    IN  IF sb.err # "" THEN sb ELSE Ok(Activate(activation_func, sb.val))

\* ------------------------------------------------------ the model it is built from
\* The name of a parameter of layer l: f"{kind}_l{l}".
Key(kind, l) == <<kind, l>>

\* The entries of the recurrent model's parameters, one per integer seed.
WeightIh(seed, l, i, j) == ((i + 2 * j + l + seed) % 3) - 1

WeightHh(seed, l, i, j) == ((2 * i + j + l + seed + 1) % 3) - 1

BiasIh(seed, l, i) == (i + l + seed) % 2

BiasHh(seed, l, i) == 0 - ((i + l + 1) % 2)

\* nn.RNN(input_size, hidden_size, num_layers, nonlinearity, bias): layer l
\* has weight_ih_l [H, D_l] (D_0 = input_size, D_l = H above), weight_hh_l
\* [H, H] and, with bias, bias_ih_l [H] and bias_hh_l [H].  zeroed: the bias
\* tensors are set to zero after construction.
RNN(input_size, hidden_size, num_layers, nonlinearity, bias, zeroed, seed) ==
    LET H == hidden_size
        D(l) == IF l = 0 THEN input_size ELSE H
        kinds == IF bias THEN {"weight_ih", "weight_hh", "bias_ih", "bias_hh"}
                 ELSE {"weight_ih", "weight_hh"}
        value(kind, l) ==
            CASE kind = "weight_ih" ->
                    Tensor(<<H, D(l)>>,
                           [p \in 1..(H * D(l)) |->
                               WeightIh(seed, l, (p - 1) \div D(l), (p - 1) % D(l))])
              [] kind = "weight_hh" ->
                    Tensor(<<H, H>>,
                           [p \in 1..(H * H) |->
                               WeightHh(seed, l, (p - 1) \div H, (p - 1) % H)])
              [] kind = "bias_ih" ->
                    Tensor(<<H>>, [p \in 1..H |->
                                      IF zeroed THEN 0 ELSE BiasIh(seed, l, p - 1)])
              [] kind = "bias_hh" ->
                    Tensor(<<H>>, [p \in 1..H |->
                                      IF zeroed THEN 0 ELSE BiasHh(seed, l, p - 1)])
    IN  [input_size |-> input_size,
         hidden_size |-> hidden_size,
         num_layers |-> num_layers,
         nonlinearity |-> nonlinearity,
         named_parameters |->
            [k \in {Key(kind, l) : kind \in kinds, l \in 0..(num_layers - 1)} |->
                value(k[1], k[2])]]

\* ------------------------------------------------------------ MyRNN.__init__
MyRNN(rnn) ==
    [num_layers |-> rnn.num_layers,
     hidden_size |-> rnn.hidden_size,
     params |-> rnn.named_parameters,
     activation_func |-> IF rnn.nonlinearity = "relu" THEN "relu" ELSE "tanh"]

\* dict.get(key, default)
Get(d, key, default) == IF key \in DOMAIN d THEN d[key] ELSE default

\* A slip in the default of a missing bias: 1 where the code has 0.
Scalar1 == Tensor(<<>>, <<1>>)

\* The python scalar 0, the default of a missing bias.
Scalar0 == Tensor(<<>>, <<0>>)

\* None: no tensor at all.
None == Tensor(<<>>, <<>>)

\* ------------------------------------------------------------------- state
VARIABLES
    self,           \* the MyRNN object: num_layers, hidden_size, params, activation_func
    X,              \* the argument X of the call
    arg_hidden_0,   \* the argument hidden_0 of the call as the caller passed it (or None)
    hidden_0,       \* the local hidden_0 (the argument, or its default)
    seq_length,     \* locals of forward
    batch_size,
    hidden_states,
    idx,
    layer,
    pc,             \* "idle", "loop", "return", "done" or "raised"
    err,            \* the exception forward raised, "" if none
    out,            \* the pair forward returned
    writes,         \* per cell of hidden_states (row-major), the assignments made to it
    step_log,       \* per completed cell, where its two operands were read from
    first_call      \* the first finished call of this run, as its caller saw it

vars == <<self, X, arg_hidden_0, hidden_0, seq_length, batch_size, hidden_states,
          idx, layer, pc, err, out, writes, step_log, first_call>>

\* The pair forward returns; NoOut before it returns.
Pair(a, b) == [last_layer_outputs |-> a, final_hidden |-> b]

NoOut == Pair(None, None)

\* ------------------------------------------------------------ MyRNN.forward
\* Two slips in the default hidden_0: ones where the code has zeros, and the
\* final hidden state of the call before where the code has zeros.
OnesHidden(num_layers, batch, hidden_size) == Full(<<num_layers, batch, hidden_size>>, 1)

CarriedHidden(num_layers, batch, hidden_size) ==
    IF out.final_hidden.shape = <<num_layers, batch, hidden_size>>
    THEN out.final_hidden
    ELSE Full(<<num_layers, batch, hidden_size>>, 0)

\* Lines 61-81: the shapes, the default hidden_0, the grid filled with nan.
ZeroHidden(num_layers, batch, hidden_size) == Full(<<num_layers, batch, hidden_size>>, 0)

NanGrid(T, L, B, H) ==
    LET zeros == Full(<<T, L, B, H>>, 0)
    IN  Tensor(zeros.shape, [p \in 1..Len(zeros.data) |-> NaN])

Enter(Xin, h0in) ==
    /\ X' = Xin
    /\ arg_hidden_0' = h0in
    /\ seq_length' = Xin.shape[1]
    /\ batch_size' = Xin.shape[2]
    /\ hidden_0' = IF h0in = None
                   THEN ZeroHidden(self.num_layers, Xin.shape[2], self.hidden_size)
                   ELSE h0in
    /\ hidden_states' = NanGrid(Xin.shape[1], self.num_layers, Xin.shape[2],
                                self.hidden_size)
    /\ idx' = 0
    /\ layer' = 0
    /\ pc' = "loop"
    /\ err' = ""
    /\ out' = NoOut
    /\ writes' = [c \in 1..(Xin.shape[1] * self.num_layers) |-> 0]
    /\ step_log' = <<>>
    /\ UNCHANGED self

\* Where the two operands of cell (idx, layer) are read from.
Source(kind, t, l) == [kind |-> kind, t |-> t, l |-> l]

\* A slip in the previous hidden state: the cell of this timestep where the code
\* has the cell of the timestep before.
PrevSourceSameStep(t, l) ==
    IF t = 0 THEN Source("hidden_0", 0, l) ELSE Source("hidden_states", t, l)

PrevSource(t, l) ==
    IF t = 0 THEN Source("hidden_0", 0, l) ELSE Source("hidden_states", t - 1, l)

InputSource(t, l) ==
    IF l = 0 THEN Source("X", t, 0) ELSE Source("hidden_states", t, l - 1)

Fetch(src) ==
    CASE src.kind = "hidden_0" -> Select(hidden_0, src.l)
      [] src.kind = "X" -> Select(X, src.t)
      [] OTHER -> LET row == Select(hidden_states, src.t)
                  IN  IF row.err # "" THEN row ELSE Select(row.val, src.l)

\* A slip in the cell assigned: layer 0 of the timestep whatever the layer.
CellIndexNoLayer(t, l) == t * self.num_layers

\* The place of cell (t, l) among the cells of the grid, from 0.
CellIndex(t, l) == t * self.num_layers + l

\* hidden_states[t, l] = v: v is broadcast to the cell's shape [B, H].
SetCell(grid, t, l, v) ==
    LET B == grid.shape[3]
        H == grid.shape[4]
        s == AsMatrixShape(v.shape)
        base == CellIndex(t, l) * B * H
    IN  IF Len(v.shape) > 2 \/ BroadcastDim(s[1], B) # B \/ BroadcastDim(s[2], H) # H
        THEN Raise("RuntimeError")
        ELSE Ok(Tensor(grid.shape,
                       [p \in 1..Len(grid.data) |->
                           IF p > base /\ p <= base + B * H
                           THEN BroadcastAt(v, (p - base - 1) \div H, (p - base - 1) % H)
                           ELSE grid.data[p]]))

\* Lines 85-97: the value of cell (idx, layer), or the exception.
Cell(t, l) ==
    LET prev == Fetch(PrevSource(t, l))
        inp == Fetch(InputSource(t, l))
    IN  IF inp.err # "" THEN inp
        ELSE IF prev.err # "" THEN prev
        ELSE compute_new_hidden_state(
                prev.val, inp.val,
                Get(self.params, Key("weight_hh", l), None),
                Get(self.params, Key("bias_hh", l), Scalar0),
                Get(self.params, Key("weight_ih", l), None),
                Get(self.params, Key("bias_ih", l), Scalar0),
                self.activation_func)

\* The loop counters after cell (idx, layer): the next layer, or layer 0 of the
\* next timestep.
NextCell(t, l) == IF l + 1 < self.num_layers THEN <<t, l + 1>> ELSE <<t + 1, 0>>

\* The first call of the run, once it has finished.
Outcome == [self |-> self, X |-> X, hidden_0 |-> arg_hidden_0,
            pc |-> pc, err |-> err, out |-> out]

Observed == IF first_call = <<>> /\ pc \in {"done", "raised"}
            THEN <<Outcome>> ELSE first_call

\* torch.isnan(t).any()
AnyNaN(t) == \E p \in 1..Len(t.data) : IsNaN(t.data[p])

\* A slip in the views returned: index 0 where the code has index -1.
OutputsFirst(grid) ==
    LET a == SelectCol(grid, 0)
        b == IF a.err # "" THEN a ELSE Select(grid, 0)
    IN  IF b.err # "" THEN [err |-> b.err, val |-> Pair(None, None)]
        ELSE [err |-> "", val |-> Pair(a.val, b.val)]

\* Line 100: hidden_states[:, -1] and then hidden_states[-1].
Outputs(grid) ==
    LET a == SelectCol(grid, -1)
        b == IF a.err # "" THEN a ELSE Select(grid, -1)
    IN  IF b.err # "" THEN [err |-> b.err, val |-> NoOut]
        ELSE [err |-> "", val |-> Pair(a.val, b.val)]

\* One iteration of the double loop (lines 83-97).
Step ==
    /\ pc = "loop"
    /\ idx < seq_length
    /\ LET cell == Cell(idx, layer)
           w == IF cell.err # "" THEN cell
                ELSE SetCell(hidden_states, idx, layer, cell.val)
           nxt == NextCell(idx, layer)
       IN  IF w.err # ""
           THEN /\ pc' = "raised"
                /\ err' = w.err
                /\ UNCHANGED <<hidden_states, idx, layer, writes, step_log>>
           ELSE /\ hidden_states' = w.val
                /\ writes' = [writes EXCEPT ![CellIndex(idx, layer) + 1] = @ + 1]
                /\ step_log' = Append(step_log,
                                      [t |-> idx, l |-> layer,
                                       prev |-> PrevSource(idx, layer),
                                       inp |-> InputSource(idx, layer)])
                /\ idx' = nxt[1]
                /\ layer' = nxt[2]
                /\ UNCHANGED <<pc, err>>
    /\ UNCHANGED <<self, X, arg_hidden_0, hidden_0, seq_length, batch_size, out,
                   first_call>>

\* Line 99, once the loop has ended: assert not hidden_states.isnan().any().
Check ==
    /\ pc = "loop"
    /\ idx >= seq_length
    /\ IF AnyNaN(hidden_states)
       THEN pc' = "raised" /\ err' = "AssertionError"
       ELSE pc' = "return" /\ UNCHANGED err
    /\ UNCHANGED <<self, X, arg_hidden_0, hidden_0, seq_length, batch_size,
                   hidden_states, idx, layer, out, writes, step_log, first_call>>

\* Line 100: the two views are taken and returned.
Return ==
    /\ pc = "return"
    /\ LET r == Outputs(hidden_states)
       IN  IF r.err # ""
           THEN pc' = "raised" /\ err' = r.err /\ UNCHANGED out
           ELSE pc' = "done" /\ out' = r.val /\ UNCHANGED err
    /\ UNCHANGED <<self, X, arg_hidden_0, hidden_0, seq_length, batch_size,
                   hidden_states, idx, layer, writes, step_log, first_call>>

\* ------------------------------------------------------------------ inputs
\* An input sequence [T, B, D]; pattern 2 has a nan as its last value.
XTensor(T, B, D, p) ==
    Tensor(<<T, B, D>>,
           [n \in 1..(T * B * D) |->
               IF p = 2 /\ n = T * B * D THEN NaN ELSE ((n + p) % 3) - 1])

\* An initial hidden state [L, B, H]; pattern 0 is all zero.
HTensor(L, B, H, q) ==
    Tensor(<<L, B, H>>,
           [n \in 1..(L * B * H) |-> IF q = 0 THEN 0 ELSE ((2 * n + 1) % 3) - 1])

Nonlinearities == {"relu", "tanh"}

\* Dimensions are taken at their least and their greatest.
Models ==
    {RNN(d, HiddenSize, L, nl, b, FALSE, 0) :
        d \in {1, MaxFeat}, L \in 1..MaxLayers, nl \in Nonlinearities, b \in BOOLEAN}

InputSequences ==
    {XTensor(T, B, D, p) :
        T \in 0..MaxSeq, B \in {1, MaxBatch}, D \in {1, MaxFeat}, p \in 0..2}

\* Every hidden_0 a caller may pass, conformant or not, and None for absent.
InitialHiddens ==
    {None} \cup {HTensor(L, B, H, q) :
                    L \in {1, MaxLayers, MaxLayers + 1}, B \in {1, MaxBatch},
                    H \in {1, HiddenSize}, q \in 0..1}

\* The models of the runs that call forward again and again: with no bias, with
\* bias tensors and with bias tensors set to zero.
BiasSettings == {<<FALSE, FALSE>>, <<TRUE, FALSE>>, <<TRUE, TRUE>>}

SmallModels ==
    {RNN(MaxFeat, HiddenSize, L, nl, b[1], b[2], 0) :
        L \in {1, MaxLayers}, nl \in Nonlinearities, b \in BiasSettings}

\* The inputs of those runs: the shapes agree with the model's; the sequence is
\* empty or of the greatest length.
ConformantInputs == {XTensor(T, MaxBatch, MaxFeat, p) : T \in {0, MaxSeq}, p \in {0, 2}}

ConformantHiddens(m) ==
    {None} \cup {HTensor(m.num_layers, MaxBatch, m.hidden_size, q) : q \in 0..1}

\* ----------------------------------------------------------------- the runs
Blank ==
    /\ X = None
    /\ arg_hidden_0 = None
    /\ hidden_0 = None
    /\ seq_length = 0
    /\ batch_size = 0
    /\ hidden_states = None
    /\ idx = 0
    /\ layer = 0
    /\ pc = "idle"
    /\ err = ""
    /\ out = NoOut
    /\ writes = <<>>
    /\ step_log = <<>>

\* One MyRNN, just constructed.
Init ==
    /\ self \in {MyRNN(rnn) : rnn \in Models}
    /\ Blank
    /\ first_call = <<>>

\* forward(X, hidden_0) on the fresh object, with any arguments.
Call ==
    /\ pc = "idle"
    /\ \E Xin \in InputSequences, h \in InitialHiddens : Enter(Xin, h)
    /\ UNCHANGED first_call

Next == Call \/ Step \/ Check \/ Return

Spec == Init /\ [][Next]_vars

\* A run of calls: MyRNN(rnn) builds a new object from another model.
InitCalls ==
    /\ self \in {MyRNN(rnn) : rnn \in SmallModels}
    /\ Blank
    /\ first_call = <<>>

Construct ==
    /\ pc \in {"idle", "done", "raised"}
    /\ \E rnn \in SmallModels : self' = MyRNN(rnn)
    /\ first_call' = Observed
    /\ X' = None
    /\ arg_hidden_0' = None
    /\ hidden_0' = None
    /\ seq_length' = 0
    /\ batch_size' = 0
    /\ hidden_states' = None
    /\ idx' = 0
    /\ layer' = 0
    /\ pc' = "idle"
    /\ err' = ""
    /\ out' = NoOut
    /\ writes' = <<>>
    /\ step_log' = <<>>

\* forward(X, hidden_0) again, once no call is running.
Recall ==
    /\ pc \in {"idle", "done", "raised"}
    /\ \E Xin \in ConformantInputs, h \in ConformantHiddens(self) : Enter(Xin, h)
    /\ first_call' = Observed

NextCalls == Construct \/ Recall \/ Step \/ Check \/ Return

SpecCalls == InitCalls /\ [][NextCalls]_vars

\* ------------------------------------------------------- what the claims speak of
Finished == pc \in {"done", "raised"}

\* The values of cell (t, l) of the grid, read off its row-major data.
CellData(t, l) ==
    LET sz == hidden_states.shape[3] * hidden_states.shape[4]
        c == t * hidden_states.shape[2] + l
    IN  SubSeq(hidden_states.data, c * sz + 1, (c + 1) * sz)

\* The input dimension layer 0 was built for.
InputSize(m) == m.params[<<"weight_ih", 0>>].shape[2]

\* The shapes of the arguments agree with the object's.
Conformant ==
    /\ X.shape[3] = InputSize(self)
    /\ \/ arg_hidden_0 = None
       \/ arg_hidden_0.shape = <<self.num_layers, X.shape[2], self.hidden_size>>

\* C1: the k-th step-function application is that of cell ((k-1) div L,
\* (k-1) mod L), that is, timesteps ascending and layers ascending within a
\* timestep; its previous hidden state is hidden_0[l] at t = 0 and grid[t-1, l]
\* after, its input X[t] at l = 0 and grid[t, l-1] above; and every grid cell
\* it read had been written by an earlier application.
C1_OrderAndOperands ==
    \A k \in 1..Len(step_log) :
        LET e == step_log[k]
            t == (k - 1) \div self.num_layers
            l == (k - 1) % self.num_layers
        IN  /\ e.t = t /\ e.l = l
            /\ t < seq_length
            /\ e.prev = IF t = 0 THEN [kind |-> "hidden_0", t |-> 0, l |-> l]
                        ELSE [kind |-> "hidden_states", t |-> t - 1, l |-> l]
            /\ e.inp = IF l = 0 THEN [kind |-> "X", t |-> t, l |-> 0]
                       ELSE [kind |-> "hidden_states", t |-> t, l |-> l - 1]
            /\ \A src \in {e.prev, e.inp} :
                  src.kind = "hidden_states" =>
                      \E j \in 1..(k - 1) : step_log[j].t = src.t /\ step_log[j].l = src.l

\* C1: a call that returned after computing a grid of several timesteps and
\* several layers.
C1_Witness ==
    /\ pc = "done"
    /\ seq_length >= 2
    /\ self.num_layers >= 2
    /\ Len(step_log) = seq_length * self.num_layers

\* C2: no cell of the grid is ever assigned twice, and once the loop has been
\* left with the check passed every cell has been assigned exactly once.
C2_WriteOnce ==
    /\ \A c \in DOMAIN writes : writes[c] <= 1
    /\ pc \in {"return", "done"} =>
          /\ Len(writes) = seq_length * self.num_layers
          /\ \A c \in DOMAIN writes : writes[c] = 1

C2_Witness == pc = "done" /\ Len(writes) >= 4

\* C3: the first output holds, for every t, cell (t, num_layers - 1) of the
\* grid, the second, for every l, cell (seq_length - 1, l); with one layer the
\* second output's only entry is the first output's last.
C3_OutputViews ==
    pc = "done" =>
        LET T == seq_length
            L == self.num_layers
            sz == batch_size * self.hidden_size
            a == out.last_layer_outputs
            b == out.final_hidden
        IN  /\ a.shape = <<T, batch_size, self.hidden_size>>
            /\ b.shape = <<L, batch_size, self.hidden_size>>
            /\ \A t \in 0..(T - 1) :
                  SubSeq(a.data, t * sz + 1, (t + 1) * sz) = CellData(t, L - 1)
            /\ \A l \in 0..(L - 1) :
                  SubSeq(b.data, l * sz + 1, (l + 1) * sz) = CellData(T - 1, l)
            /\ L = 1 => b.data = SubSeq(a.data, (T - 1) * sz + 1, T * sz)

C3_Witness == pc = "done" /\ seq_length >= 2 /\ self.num_layers >= 2

\* The reference recurrence, entry by entry:
\*   h[t][l][b][i] = act(sum_k prev[b][k] * W_hh_l[i][k] + b_hh_l[i]
\*                       + sum_k in[b][k] * W_ih_l[i][k] + b_ih_l[i])
\* with prev = hidden_0[l] at t = 0 and h[t-1][l] after, in = X[t] at l = 0 and
\* h[t][l-1] above, an absent hidden_0 all zero and an absent bias no term.
RECURSIVE SumOf(_)
SumOf(terms) == IF terms = <<>> THEN 0 ELSE FAdd(Head(terms), SumOf(Tail(terms)))

RefWeight(kind, l, i, k) ==
    LET w == self.params[<<kind, l>>] IN w.data[i * w.shape[2] + k + 1]

RefBias(kind, l, i) ==
    IF <<kind, l>> \in DOMAIN self.params THEN self.params[<<kind, l>>].data[i + 1] ELSE 0

\* The cells of the recurrence are computed layer by layer: cell number n (from
\* 0) is timestep n mod T of layer n div T.
RECURSIVE RefCells(_)
RefCells(n) ==
    IF n = 0 THEN <<>>
    ELSE LET done == RefCells(n - 1)
             T == X.shape[1]
             B == X.shape[2]
             D == X.shape[3]
             H == self.hidden_size
             t == (n - 1) % T
             l == (n - 1) \div T
             prev(b, k) == IF t > 0 THEN done[l * T + t][b * H + k + 1]
                           ELSE IF arg_hidden_0 = None THEN 0
                           ELSE arg_hidden_0.data[(l * B + b) * H + k + 1]
             inp(b, k) == IF l > 0 THEN done[(l - 1) * T + t + 1][b * H + k + 1]
                          ELSE X.data[(t * B + b) * D + k + 1]
             Dl == IF l = 0 THEN D ELSE H
             pre(b, i) ==
                FAdd(FAdd(FAdd(SumOf([k \in 1..H |->
                                         FMul(prev(b, k - 1), RefWeight("weight_hh", l, i, k - 1))]),
                               RefBias("bias_hh", l, i)),
                          SumOf([k \in 1..Dl |->
                                    FMul(inp(b, k - 1), RefWeight("weight_ih", l, i, k - 1))])),
                     RefBias("bias_ih", l, i))
         IN  Append(done, [q \in 1..(B * H) |->
                              Apply(self.activation_func,
                                    pre((q - 1) \div H, (q - 1) % H))])

\* The two outputs of the reference: h[t][L-1] for every t, h[T-1][l] for every l.
RefOutputs ==
    LET T == X.shape[1]
        B == X.shape[2]
        H == self.hidden_size
        L == self.num_layers
        h == RefCells(T * L)
    IN  Pair(Tensor(<<T, B, H>>,
                    [q \in 1..(T * B * H) |->
                        h[(L - 1) * T + ((q - 1) \div (B * H)) + 1][((q - 1) % (B * H)) + 1]]),
             Tensor(<<L, B, H>>,
                    [q \in 1..(L * B * H) |->
                        h[((q - 1) \div (B * H)) * T + T][((q - 1) % (B * H)) + 1]]))

C5_MismatchFailsFast ==
    (pc # "idle" /\ seq_length >= 1 /\ ~Conformant) =>
        /\ step_log = <<>>
        /\ pc \notin {"return", "done"}
        /\ pc = "raised" => err = "RuntimeError"

\* C6: once the check of line 99 has run, it has failed exactly if some cell of
\* the grid was not assigned exactly once.
C6_CheckIsCoverage ==
    (pc \in {"return", "done", "raised"} /\ idx >= seq_length) =>
        ((err = "AssertionError") <=> (\E c \in DOMAIN writes : writes[c] # 1))

\* C7: forward(X) and forward(X, zeros[num_layers, B, H]) on the same object end
\* the same way: the same two outputs, or the same exception.
SameOutcome(c) == c.pc = pc /\ c.err = err /\ c.out = out

ZeroArgument ==
    Tensor(<<self.num_layers, X.shape[2], self.hidden_size>>,
           [n \in 1..(self.num_layers * X.shape[2] * self.hidden_size) |-> 0])

C7_ZeroDefault ==
    (Finished /\ first_call # <<>>) =>
        LET c == first_call[1]
        IN  (/\ c.self = self
             /\ c.X = X
             /\ \/ c.hidden_0 = None /\ arg_hidden_0 = ZeroArgument
                \/ c.hidden_0 = ZeroArgument /\ arg_hidden_0 = None)
            => SameOutcome(c)

C7_Witness ==
    /\ pc = "done"
    /\ first_call # <<>>
    /\ first_call[1].self = self
    /\ first_call[1].X = X
    /\ first_call[1].hidden_0 = None
    /\ arg_hidden_0 = ZeroArgument
    /\ seq_length >= 2
    /\ self.num_layers >= 2

\* C8: two objects with the same weights, one with no bias entries and one whose
\* bias tensors are all zero, end forward the same way on the same arguments.
NoBias(m) == \A k \in DOMAIN m.params : k[1] \in {"weight_ih", "weight_hh"}

ZeroBias(m) ==
    \A l \in 0..(m.num_layers - 1) : \A kind \in {"bias_ih", "bias_hh"} :
        /\ <<kind, l>> \in DOMAIN m.params
        /\ m.params[<<kind, l>>].shape = <<m.hidden_size>>
        /\ \A i \in 1..m.hidden_size : m.params[<<kind, l>>].data[i] = 0

SameWeights(m, n) ==
    /\ m.num_layers = n.num_layers
    /\ m.hidden_size = n.hidden_size
    /\ m.activation_func = n.activation_func
    /\ \A l \in 0..(m.num_layers - 1) : \A kind \in {"weight_ih", "weight_hh"} :
          m.params[<<kind, l>>] = n.params[<<kind, l>>]

C8_BiasAbsence ==
    (Finished /\ first_call # <<>>) =>
        LET c == first_call[1]
        IN  (/\ c.X = X
             /\ c.hidden_0 = arg_hidden_0
             /\ SameWeights(c.self, self)
             /\ \/ NoBias(c.self) /\ ZeroBias(self)
                \/ ZeroBias(c.self) /\ NoBias(self))
            => SameOutcome(c)

C8_Witness ==
    /\ pc = "done"
    /\ first_call # <<>>
    /\ first_call[1].X = X
    /\ first_call[1].hidden_0 = arg_hidden_0
    /\ SameWeights(first_call[1].self, self)
    /\ ZeroBias(first_call[1].self)
    /\ NoBias(self)
    /\ seq_length >= 2
    /\ self.num_layers >= 2

\* A call on the same object with the same arguments as the first call of the
\* run ends as that one did; every call starts from a grid that is all nan with
\* no cell assigned.
SameCallSameOutcome ==
    /\ (Finished /\ first_call # <<>>) =>
          LET c == first_call[1]
          IN  (c.self = self /\ c.X = X /\ c.hidden_0 = arg_hidden_0) => SameOutcome(c)
    /\ (pc = "loop" /\ step_log = <<>>) =>
          /\ \A p \in 1..Len(hidden_states.data) : IsNaN(hidden_states.data[p])
          /\ \A c \in DOMAIN writes : writes[c] = 0

\* While a call runs it changes neither the object nor its arguments.
ReadOnlyStep ==
    pc \in {"loop", "return"} => (self' = self /\ X' = X /\ arg_hidden_0' = arg_hidden_0)

\* C9: forward is deterministic and stateless: in any run of calls, a call with
\* the first call's object and arguments ends as the first call did, whatever
\* was called in between; each call starts from a fresh all-nan grid; and no
\* step of a call changes the parameter store, X or hidden_0.
C9_Deterministic == []SameCallSameOutcome /\ [][ReadOnlyStep]_vars

C9_Witness ==
    /\ pc = "done"
    /\ first_call # <<>>
    /\ first_call[1].self = self
    /\ first_call[1].X = X
    /\ first_call[1].hidden_0 = arg_hidden_0
    /\ first_call[1].pc = "done"
    /\ arg_hidden_0 = None
    /\ seq_length >= 2

\* C10: a call on an empty sequence runs no step and fails with the IndexError
\* of line 100; a call with conformant shapes on a sequence that is not empty
\* ends after seq_length * num_layers steps with both outputs returned.
C10_EmptyFailsElseReturns ==
    Finished =>
        /\ seq_length = 0 => (step_log = <<>> /\ pc = "raised" /\ err = "IndexError")
        /\ (seq_length >= 1 /\ Conformant) =>
              (pc = "done" /\ Len(step_log) = seq_length * self.num_layers)

\* What does hold of every finished call: the empty sequence fails at line 100,
\* and a conformant call on a sequence that is not empty runs seq_length *
\* num_layers steps and then either returns or is stopped by the check of
\* line 99.
EmptyFailsElseRunsAllSteps ==
    Finished =>
        /\ seq_length = 0 => (step_log = <<>> /\ pc = "raised" /\ err = "IndexError")
        /\ (seq_length >= 1 /\ Conformant) =>
              /\ Len(step_log) = seq_length * self.num_layers
              /\ pc = "done" \/ err = "AssertionError"

\* Every number the grid holds is far from the integer that stands for nan.
NumbersStaySmall ==
    \A p \in 1..Len(hidden_states.data) :
        IsNaN(hidden_states.data[p])
        \/ (hidden_states.data[p] > -1000 /\ hidden_states.data[p] < 1000)

====
